---- MODULE Spec2Model ----
(***************************************************************************)
(* Model of the diagnostic-driven fix scripts of the repository            *)
(* (fix-all-property-access.py, fix-batch-8.py, fix-property-access-       *)
(* batch.py, fix-ts-property-access.py, fix-all-refs.py,                   *)
(* fix-ts-errors-comprehensive.py, fix-ts-errors.py, fix-unused-vars.py,   *)
(* fix-batch-7.py, fix-massive-batch.py).                                  *)
(*                                                                         *)
(* Text is modelled at character level: a string is a sequence of          *)
(* one-character strings.  The regular expressions the scripts apply to    *)
(* source lines are run by a small backtracking matcher (MatchFrom), and   *)
(* re.sub / str.replace / split / join / read_text are computed the way    *)
(* Python computes them.  A line of producer output is a record of the     *)
(* fields the scripts' parsing patterns look at.                           *)
(***************************************************************************)
EXTENDS Integers, Sequences, FiniteSets, TLC

(***************************************************************************)
(* Bounds                                                                  *)
(***************************************************************************)
MaxFrags == 4
MaxOutput == 2
MaxLineNo == 3

(***************************************************************************)
(* Characters and character classes of Python's re module                  *)
(***************************************************************************)
Lower == {"a","b","c","d","e","f","g","h","i","j","k","l","m",
          "n","o","p","q","r","s","t","u","v","w","x","y","z"}
Upper == {"A","B","C","D","E","F","G","H","I","J","K","L","M",
          "N","O","P","Q","R","S","T","U","V","W","X","Y","Z"}
Digit == {"0","1","2","3","4","5","6","7","8","9"}
IdentStart == Lower \cup Upper \cup {"_"}
IdentChar == IdentStart \cup Digit
WordChar == IdentChar
Space == {" ", "\t", "\n", "\r", "\f"}

LF == "\n"
CR == "\r"

(***************************************************************************)
(* Sequence helpers                                                        *)
(***************************************************************************)
SetMax(S) == CHOOSE x \in S : \A y \in S : y <= x

Slice(s, i, j) == IF i > j THEN <<>> ELSE SubSeq(s, i, j)

RECURSIVE Concat(_)
Concat(ss) == IF ss = <<>> THEN <<>> ELSE Head(ss) \o Concat(Tail(ss))

\* s[i .. i+Len(t)-1] = t
StartsAt(s, i, t) ==
    /\ i + Len(t) - 1 <= Len(s)
    /\ \A k \in 1..Len(t) : s[i + k - 1] = t[k]

\* Python: t in s
Contains(s, t) == \E i \in 1..(Len(s) + 1) : StartsAt(s, i, t)

\* Python: s.replace(old, new), leftmost non-overlapping occurrences
RECURSIVE ReplaceFrom(_, _, _, _)
ReplaceFrom(s, i, old, new) ==
    IF i > Len(s) THEN <<>>
    ELSE IF StartsAt(s, i, old)
         THEN new \o ReplaceFrom(s, i + Len(old), old, new)
         ELSE <<s[i]>> \o ReplaceFrom(s, i + 1, old, new)

StrReplace(s, old, new) == ReplaceFrom(s, 1, old, new)

\* Python: s.split('\n'), from position i on: the piece up to the next
\* '\n', then the pieces after it
RECURSIVE SplitFrom(_, _)
SplitFrom(s, i) ==
    LET nl == {k \in i..Len(s) : s[k] = LF}
    IN IF nl = {} THEN <<Slice(s, i, Len(s))>>
       ELSE LET p == CHOOSE k \in nl : \A m \in nl : k <= m
            IN <<Slice(s, i, p - 1)>> \o SplitFrom(s, p + 1)

SplitLines(s) == SplitFrom(s, 1)

\* Python: '\n'.join(lines)
RECURSIVE JoinLines(_)
JoinLines(ls) ==
    IF ls = <<>> THEN <<>>
    ELSE IF Len(ls) = 1 THEN ls[1]
         ELSE ls[1] \o <<LF>> \o JoinLines(Tail(ls))

\* Path.read_text(): text mode with newline=None, so '\r\n' and '\r' are
\* read as '\n'
\* each character as it is read: the '\r' of '\r\n' is dropped (""), any
\* other '\r' is read as '\n'
TranslateFrom(s, i) ==
    IF s[i] = CR
    THEN IF i < Len(s) /\ s[i + 1] = LF THEN "" ELSE LF
    ELSE s[i]

ReadText(bytes) ==
    SelectSeq([i \in 1..Len(bytes) |-> TranslateFrom(bytes, i)],
              LAMBDA c : c # "")

\* Path.write_text(): text mode on POSIX, '\n' is written as os.linesep = '\n'
WriteText(text) == text

(***************************************************************************)
(* Regular expressions: a pattern is a sequence of atoms                   *)
(***************************************************************************)
WB == [t |-> "wb", cls |-> {}]
One(S) == [t |-> "one", cls |-> S]
Star(S) == [t |-> "star", cls |-> S]
NotAhead(S) == [t |-> "nla", cls |-> S]
GOpen == [t |-> "gopen", cls |-> {}]
GClose == [t |-> "gclose", cls |-> {}]

Lits(w) == [k \in 1..Len(w) |-> One({w[k]})]

NoMatch == [ok |-> FALSE, start |-> 0, end |-> 0, gs |-> 0, ge |-> 0]

IsWordAt(s, i) == i >= 1 /\ i <= Len(s) /\ s[i] \in WordChar

\* \b between s[i-1] and s[i]
AtBoundary(s, i) == IsWordAt(s, i - 1) # IsWordAt(s, i)

\* longest n with s[i .. i+n-1] all in S
RECURSIVE RunLen(_, _, _)
RunLen(s, i, S) ==
    IF i <= Len(s) /\ s[i] \in S THEN 1 + RunLen(s, i + 1, S) ELSE 0

\* match pat[k..] at position i of s; greedy stars, longest first
RECURSIVE MatchFrom(_, _, _, _, _)
MatchFrom(pat, k, s, i, m) ==
    IF k > Len(pat) THEN [m EXCEPT !.ok = TRUE, !.end = i]
    ELSE LET a == pat[k] IN
      CASE a.t = "wb" ->
             IF AtBoundary(s, i) THEN MatchFrom(pat, k + 1, s, i, m) ELSE NoMatch
        [] a.t = "one" ->
             IF i <= Len(s) /\ s[i] \in a.cls
             THEN MatchFrom(pat, k + 1, s, i + 1, m) ELSE NoMatch
        [] a.t = "star" ->
             LET mx == RunLen(s, i, a.cls)
                 good == {n \in 0..mx : MatchFrom(pat, k + 1, s, i + n, m).ok}
             IN IF good = {} THEN NoMatch
                ELSE MatchFrom(pat, k + 1, s, i + SetMax(good), m)
        [] a.t = "nla" ->
             IF i <= Len(s) /\ s[i] \in a.cls
             THEN NoMatch ELSE MatchFrom(pat, k + 1, s, i, m)
        [] a.t = "gopen" -> MatchFrom(pat, k + 1, s, i, [m EXCEPT !.gs = i])
        [] a.t = "gclose" -> MatchFrom(pat, k + 1, s, i, [m EXCEPT !.ge = i])

MatchAt(pat, s, i) == MatchFrom(pat, 1, s, i, [NoMatch EXCEPT !.start = i])

\* re.finditer: leftmost non-overlapping matches (no pattern here matches
\* the empty string)
RECURSIVE FindAll(_, _, _)
FindAll(pat, s, i) ==
    IF i > Len(s) THEN <<>>
    ELSE LET m == MatchAt(pat, s, i) IN
         IF m.ok THEN <<m>> \o FindAll(pat, s, m.end)
         ELSE FindAll(pat, s, i + 1)

\* re.search(pat, s) is not None
ReSearch(pat, s) == FindAll(pat, s, 1) # <<>>

Group1(s, m) == Slice(s, m.gs, m.ge - 1)

\* re.sub: the text between the matches is kept, match k becomes repls[k]
RECURSIVE Rebuild(_, _, _, _, _)
Rebuild(s, ms, repls, k, i) ==
    IF k > Len(ms) THEN Slice(s, i, Len(s))
    ELSE Slice(s, i, ms[k].start - 1) \o repls[k]
         \o Rebuild(s, ms, repls, k + 1, ms[k].end)

(***************************************************************************)
(* The scripts                                                             *)
(***************************************************************************)
AllPropertyAccess == "fix-all-property-access"
Batch8 == "fix-batch-8"
PropertyAccessBatch == "fix-property-access-batch"
TsPropertyAccess == "fix-ts-property-access"
AllRefs == "fix-all-refs"
Comprehensive == "fix-ts-errors-comprehensive"
TsErrors == "fix-ts-errors"
UnusedVars == "fix-unused-vars"
Batch7 == "fix-batch-7"
MassiveBatch == "fix-massive-batch"

FlagPropertyScripts == {AllPropertyAccess, Batch8, PropertyAccessBatch}
PropertyScripts == FlagPropertyScripts \cup {TsPropertyAccess}
TokenScripts == {AllRefs, Comprehensive, TsErrors, UnusedVars}
ReplaceScripts == {Batch7, MassiveBatch}
Scripts == PropertyScripts \cup TokenScripts \cup ReplaceScripts

\* string literals of the scripts
S_as_any_dot == <<" ","a","s"," ","a","n","y",")",".">>
S_error == <<"e","r","r","o","r">>
S_uerror == <<"_">> \o S_error
S_error_colon == S_error \o <<":">>
S_logger_uerror == <<"l","o","g","g","e","r",".">> \o S_uerror
S_logger_error == <<"l","o","g","g","e","r",".">> \o S_error
S_from == <<"f","r","o","m">>
S_dot_from == <<".">> \o S_from
S_as_any_from == <<" ","a","s"," ","a","n","y",")">> \o S_dot_from
S_id == <<"i","d">>
S_item_as_any_id == <<"(","i","t","e","m">> \o S_as_any_dot \o S_id
S_e == <<"e">>
S_err == <<"e","r","r">>
S_request == <<"r","e","q","u","e","s","t">>
S_req == <<"r","e","q">>
S_never == <<"n","e","v","e","r">>
S_unknown == <<"u","n","k","n","o","w","n">>

\* rf'\b([a-zA-Z_][a-zA-Z0-9_]*)\s*\.\s*{prop}\b'
PropPattern(prop) ==
    <<WB, GOpen, One(IdentStart), Star(IdentChar), GClose,
      Star(Space), One({"."}), Star(Space)>> \o Lits(prop) \o <<WB>>

\* re.sub(PropPattern, r'(\1 as any).' + prop, line)
PropSub(line, prop) ==
    LET ms == FindAll(PropPattern(prop), line, 1)
        repls == [k \in 1..Len(ms) |->
                    <<"(">> \o Group1(line, ms[k]) \o S_as_any_dot \o prop]
    IN Rebuild(line, ms, repls, 1, 1)

\* the pattern without its lookahead
RefPatternNoLookahead(old) == <<WB>> \o Lits(old) \o <<WB>>

\* rf'\b{old_var}\b(?!:)'
RefPattern(old) == <<WB>> \o Lits(old) \o <<WB, NotAhead({":"})>>

\* re.sub(rf'\b{old_var}\b(?!:)', new_var, line)
RefSub(line, old, new) ==
    LET ms == FindAll(RefPattern(old), line, 1)
    IN Rebuild(line, ms, [k \in 1..Len(ms) |-> new], 1, 1)

\* rf'\b{old_var}\b'
WordPattern(old) == <<WB>> \o Lits(old) \o <<WB>>

\* re.sub(rf'\b{old_var}\b', new_var, line)
WordSub(line, old, new) ==
    LET ms == FindAll(WordPattern(old), line, 1)
    IN Rebuild(line, ms, [k \in 1..Len(ms) |-> new], 1, 1)

\* fix-all-refs: if f'{old_var}:' not in line or 'error:' in line
RefsGuard(line, old) ==
    ~Contains(line, old \o <<":">>) \/ Contains(line, S_error_colon)

\* the body of the apply loop for one in-range fix: the new text of
\* lines[idx].  A fix is [line, old, new]; the property scripts and
\* fix-unused-vars carry only (line, name), held in old.
ApplyFix(script, line, fix) ==
    CASE script \in FlagPropertyScripts -> PropSub(line, fix.old)
      [] script = TsPropertyAccess ->
           IF ReSearch(PropPattern(fix.old), line)
           THEN PropSub(line, fix.old) ELSE line
      [] script = AllRefs ->
           IF RefsGuard(line, fix.old)
           THEN RefSub(line, fix.old, fix.new) ELSE line
      [] script = Comprehensive -> RefSub(line, fix.old, fix.new)
      [] script = TsErrors -> WordSub(line, fix.old, fix.new)
      [] script = UnusedVars -> WordSub(line, fix.old, <<"_">> \o fix.old)
      [] script = Batch7 -> StrReplace(line, fix.old, fix.new)
      [] script = MassiveBatch ->
           IF Contains(line, fix.old)
           THEN StrReplace(line, fix.old, fix.new) ELSE line

\* the value of the 'modified' flag after one in-range fix
ModifiedAfter(script, line, fix, modified) ==
    CASE script \in FlagPropertyScripts ->
           modified \/ PropSub(line, fix.old) # line
      [] script = Batch7 -> TRUE
      [] script = MassiveBatch -> modified \/ Contains(line, fix.old)
      [] OTHER -> modified

\* whether the script calls path.write_text after the apply loop
ShouldWrite(script, modified, content, newContent) ==
    CASE script \in FlagPropertyScripts \cup ReplaceScripts -> modified
      [] script = TsErrors -> newContent # content
      [] OTHER -> TRUE

(***************************************************************************)
(* Producer output.  One line of output is a record of the fields the      *)
(* parsing patterns look at:                                               *)
(*   fmt   "tsc"    file(line,col): error CODE: message                    *)
(*         "eslint" file:line:col  error  'name' ... never used            *)
(*         "noise"  anything else (banner, summary, progress)              *)
(*   kind  "prop"   Property 'name' does not exist on type 'ty'            *)
(*         "name"   Cannot find name 'name'.  [Did you mean 'hint'?]       *)
(*         "unused" 'name' is defined but never used                       *)
(***************************************************************************)
S_p == <<"p">>
None == <<>>

Msg(fmt, code, kind, name, hint, ty) ==
    [fmt |-> fmt, code |-> code, kind |-> kind, name |-> name,
     hint |-> hint, ty |-> ty]

M_prop_unknown == Msg("tsc", "TS2339", "prop", S_p, None, S_unknown)
M_prop_never == Msg("tsc", "TS2339", "prop", S_p, None, S_never)
M_from_unknown == Msg("tsc", "TS2339", "prop", S_from, None, S_unknown)
M_id_never == Msg("tsc", "TS2339", "prop", S_id, None, S_never)
M_id_unknown == Msg("tsc", "TS2339", "prop", S_id, None, S_unknown)
M_uerror_prop == Msg("tsc", "TS2551", "prop", S_uerror, S_error, S_unknown)
M_2552 == Msg("tsc", "TS2552", "name", S_error, S_uerror, None)
M_2304 == Msg("tsc", "TS2304", "name", S_error, None, None)
M_2304_hint == Msg("tsc", "TS2304", "name", S_error, S_uerror, None)
M_2304_other == Msg("tsc", "TS2304", "name", S_p, None, None)
M_unused == Msg("eslint", "lint", "unused", S_error, None, None)
M_noise == Msg("noise", "", "", None, None, None)

\* the messages the producer is taken to emit when a given script runs it:
\* those its patterns accept and near misses
Vocabulary(script) ==
    CASE script \in {AllPropertyAccess, Batch8} -> {M_prop_unknown, M_uerror_prop}
      [] script = PropertyAccessBatch -> {M_prop_unknown, M_prop_never}
      [] script = TsPropertyAccess -> {M_prop_never, M_prop_unknown}
      [] script = AllRefs -> {M_2552, M_2304}
      [] script = Comprehensive -> {M_2552, M_2304, M_2304_hint, M_2304_other}
      [] script = TsErrors -> {M_2552, M_2304}
      [] script = UnusedVars -> {M_unused, M_2552}
      [] script = Batch7 -> {M_uerror_prop, M_2552}
      [] script = MassiveBatch -> {M_uerror_prop, M_from_unknown, M_id_never}

FileA == "a.ts"
FileB == "b.js"
Files == {FileA, FileB}

OutLine(f, n, m) ==
    [file |-> f, line |-> n, fmt |-> m.fmt, code |-> m.code, kind |-> m.kind,
     name |-> m.name, hint |-> m.hint, ty |-> m.ty]

OutputLines(script) ==
    {OutLine(FileA, n, m) : n \in 0..MaxLineNo, m \in Vocabulary(script)}
    \cup {OutLine(FileB, 1, m) : m \in Vocabulary(script)}
    \cup {OutLine(FileA, 1, M_noise)}

Outputs(script) ==
    UNION {[1..k -> OutputLines(script)] : k \in 0..MaxOutput}

(***************************************************************************)
(* Parsing: the patterns of each script as predicates on an output line    *)
(***************************************************************************)
Fix(n, old, new) == [line |-> n, old |-> old, new |-> new]
Rec(o, old, new) == [file |-> o.file, fix |-> Fix(o.line, old, new)]

\* (.+\.tsx?)\(
IsTsPath(f) == f \in {FileA}

\* Did you mean ['"](_\w+)['"]
IsUnderscoreHint(h) == Len(h) >= 2 /\ h[1] = "_"

\* ^([^:]+)\((\d+),\d+\): error TS2339: Property '(\w+)' does not exist on type
IsTS2339(o) == o.fmt = "tsc" /\ o.code = "TS2339" /\ o.kind = "prop"

\* ... Cannot find name ['"](\w+)['"]\. Did you mean ['"](_\w+)['"]
IsDidYouMean(o) == o.fmt = "tsc" /\ o.kind = "name" /\ IsUnderscoreHint(o.hint)

CatchNames == {S_error, S_e, S_err, S_request, S_req}

If(c, r) == IF c THEN <<r>> ELSE <<>>

\* the records one output line appends, in the order the loop body appends them
ParseLine(script, o) ==
    CASE script \in {AllPropertyAccess, Batch8} ->
           If(IsTS2339(o), Rec(o, o.name, None))
      [] script = PropertyAccessBatch ->
           If(IsTS2339(o) /\ o.ty = S_unknown, Rec(o, o.name, None))
      [] script = TsPropertyAccess ->
           If(IsTS2339(o) /\ o.ty = S_never, Rec(o, o.name, None))
      [] script = AllRefs ->
           If(IsDidYouMean(o) /\ IsTsPath(o.file), Rec(o, o.name, o.hint))
      [] script = TsErrors ->
           If(IsDidYouMean(o), Rec(o, o.name, o.hint))
      [] script = Comprehensive ->
           If(IsDidYouMean(o), Rec(o, o.name, o.hint))
           \o If(o.fmt = "tsc" /\ o.code = "TS2304" /\ o.kind = "name"
                   /\ o.name \in CatchNames,
                 Rec(o, o.name, <<"_">> \o o.name))
      [] script = UnusedVars ->
           If(o.fmt = "eslint" /\ o.kind = "unused", Rec(o, o.name, None))
      [] script = Batch7 ->
           If(o.fmt = "tsc" /\ o.code = "TS2551" /\ o.kind = "prop"
                /\ o.name = S_uerror,
              Rec(o, S_logger_uerror, S_logger_error))
           \o If(o.fmt = "tsc" /\ o.code = "TS2552" /\ o.kind = "name"
                   /\ o.name = S_error,
                 Rec(o, S_error, S_uerror))
      [] script = MassiveBatch ->
           If(o.fmt = "tsc" /\ o.code = "TS2551" /\ o.kind = "prop"
                /\ o.name = S_uerror,
              Rec(o, S_uerror, S_error))
           \o If(IsTS2339(o) /\ o.name = S_from /\ o.ty = S_unknown,
                 Rec(o, S_dot_from, S_as_any_from))
           \o If(IsTS2339(o) /\ o.name = S_id /\ o.ty = S_never,
                 Rec(o, S_id, S_item_as_any_id))

\* if file not in fixes: fixes[file] = []; fixes[file].append(...)
\* (a dict keeps insertion order: a sequence of [file, issues])
AddFix(fx, r) ==
    IF \E k \in 1..Len(fx) : fx[k].file = r.file
    THEN [k \in 1..Len(fx) |->
            IF fx[k].file = r.file
            THEN [fx[k] EXCEPT !.issues = Append(@, r.fix)] ELSE fx[k]]
    ELSE Append(fx, [file |-> r.file, issues |-> <<r.fix>>])

RECURSIVE AddAll(_, _)
AddAll(fx, rs) == IF rs = <<>> THEN fx ELSE AddAll(AddFix(fx, Head(rs)), Tail(rs))

TopFiles == 10

\* sorted(..., key=lambda x: len(x[1]), reverse=True): stable, most issues first
RECURSIVE SortByCount(_)
SortByCount(fx) ==
    IF fx = <<>> THEN <<>>
    ELSE LET mx == SetMax({Len(fx[k].issues) : k \in 1..Len(fx)})
             j == CHOOSE k \in 1..Len(fx) :
                    /\ Len(fx[k].issues) = mx
                    /\ \A l \in 1..(k - 1) : Len(fx[l].issues) # mx
         IN <<fx[j]>> \o SortByCount(SubSeq(fx, 1, j - 1) \o SubSeq(fx, j + 1, Len(fx)))

\* the order in which the fix loop visits the files
FileOrder(script, fx) ==
    IF script = PropertyAccessBatch
    THEN LET srt == SortByCount(fx)
         IN SubSeq(srt, 1, IF Len(srt) < TopFiles THEN Len(srt) ELSE TopFiles)
    ELSE fx

\* a producer failure swallowed: the script goes on with what it captured
ProducerNextSwallowed(script, outcome) == "parse"

\* what follows subprocess.run: the parsing loop, or the end of the script
\* (fix-all-refs: except -> exit(1); the others: the exception is not caught)
ProducerNext(script, outcome) ==
    IF outcome = "ok" THEN "parse" ELSE "aborted"

(***************************************************************************)
(* Source files on disk                                                    *)
(***************************************************************************)
S_x_dot_p == <<"x",".","p">>
S_x_as_any_p == <<"(","x">> \o S_as_any_dot \o S_p
S_y == <<"y">>
S_call == S_logger_uerror \o <<"(">> \o S_error \o <<")">>
S_call_fixed == S_logger_error \o <<"(">> \o S_uerror \o <<")">>
S_x_from == <<"x">> \o S_dot_from
S_x_as_any_from == <<"x">> \o S_as_any_from

\* a line the script's fix changes
HitLine(script) ==
    CASE script \in PropertyScripts -> S_x_dot_p
      [] script \in TokenScripts -> S_error
      [] script = Batch7 -> S_call
      [] script = MassiveBatch -> S_x_from

\* a line without the target
MissLine(script) == S_y

\* a line the fix has already been applied to
PatchedLine(script) ==
    CASE script \in PropertyScripts -> S_x_as_any_p
      [] script \in TokenScripts -> S_uerror
      [] script = Batch7 -> S_call_fixed
      [] script = MassiveBatch -> S_x_as_any_from

SampleFiles(script) ==
    { HitLine(script) \o <<LF>> \o MissLine(script),
      HitLine(script) \o <<CR, LF>> \o MissLine(script),
      PatchedLine(script) \o <<LF>> \o HitLine(script),
      MissLine(script) }

OnDisk(bytes) == [exists |-> TRUE, bytes |-> bytes]
Missing == [exists |-> FALSE, bytes |-> <<>>]

\* what another writer puts into the file
ExternalContent == <<"z">>

\* lines.insert(idx, new): the line is inserted, not replaced
SetLineInsert(ls, k, new) ==
    SubSeq(ls, 1, k - 1) \o <<new>> \o SubSeq(ls, k, Len(ls))

\* lines[idx] = new, with k = idx + 1
SetLine(ls, k, new) == [ls EXCEPT ![k] = new]

(***************************************************************************)
(* Lines and fixes for applying one fix to one line                        *)
(***************************************************************************)
Fragments(script) ==
    CASE script \in PropertyScripts -> {<<"x">>, <<".", "p">>, <<" ">>, <<")">>, S_p}
      [] script \in TokenScripts -> {S_e, S_error, <<":">>, <<" ">>, <<"_">>}
      [] script = Batch7 ->
           {S_error, <<"_">>, <<"l","o","g","g","e","r",".">>, <<"(">>, <<" ">>}
      [] script = MassiveBatch -> {S_error, <<"_">>, S_dot_from, S_id, <<"x">>}

TrialLines(script) ==
    UNION {{Concat(fs) : fs \in [1..k -> Fragments(script)]} : k \in 0..MaxFrags}

\* fixes the parsing loop of the script can produce
TrialFixes(script) ==
    CASE script \in PropertyScripts -> {Fix(1, S_p, None)}
      [] script \in {AllRefs, Comprehensive, TsErrors} ->
           {Fix(1, S_e, <<"_">> \o S_e), Fix(1, S_error, S_uerror)}
      [] script = UnusedVars -> {Fix(1, S_e, None), Fix(1, S_error, None)}
      [] script = Batch7 ->
           {Fix(1, S_logger_uerror, S_logger_error), Fix(1, S_error, S_uerror)}
      [] script = MassiveBatch ->
           {Fix(1, S_uerror, S_error), Fix(1, S_dot_from, S_as_any_from),
            Fix(1, S_id, S_item_as_any_id)}

(***************************************************************************)
(* The fixed-target scripts: fix-logger-imports.py, fix-parentheses.py,    *)
(* fix-all-supabase-patterns.py, fix-all-lte.py                            *)
(***************************************************************************)
LoggerImports == "fix-logger-imports"
Parentheses == "fix-parentheses"
SupabasePatterns == "fix-all-supabase-patterns"
AllLte == "fix-all-lte"
FixedScripts == {LoggerImports, Parentheses, SupabasePatterns, AllLte}

MaxShort == 3

S_paren_from ==
    <<" ","a","s"," ","a","n","y",")",".","f","r","o","m","(">>

S_paren_rpc ==
    <<" ","a","s"," ","a","n","y",")",".","r","p","c","(">>

S_close_semi ==
    <<")",";">>

S_await_supabase ==
    <<"a","w","a","i","t"," ","s","u","p","a","b","a","s","e">>

S_await_cast ==
    <<"a","w","a","i","t"," ","(","s","u","p","a","b","a","s","e"," ",
     "a","s"," ","a","n","y",")">>

S_as_any_from_bare ==
    <<"a","s"," ","a","n","y",")",".","f","r","o","m">>

S_await_rpc ==
    <<"a","w","a","i","t"," ","(","s","u","p","a","b","a","s","e"," ",
     "a","s"," ","a","n","y",")",".","r","p","c">>

S_rpc_end ==
    <<"}",")",")",";">>

S_rpc_fixed ==
    <<"}",")",";">>

S_lte_pat ==
    <<".","l","t","e","(",".","*",")",")",";">>

S_gte ==
    <<"g","t","e">>

S_lte_fixed ==
    <<".","l","t","e","(","\"","c","r","e","a","t","e","d","_","a",
     "t","\"",","," ","d","a","t","e","R","a","n","g","e",".","e","n",
     "d",".","t","o","I","S","O","S","t","r","i","n","g","(",")",")",
     ";">>

S_import ==
    <<"i","m","p","o","r","t">>

S_logger_line ==
    <<"i","m","p","o","r","t"," ","{"," ","l","o","g","g","e","r"," ",
     "}"," ","f","r","o","m"," ","\"","@","/","l","i","b","/","l","o",
     "g","g","e","r","\"",";">>

S_import_check ==
    <<"i","m","p","o","r","t",".","*","l","o","g","g","e","r">>

S_from_check ==
    <<"f","r","o","m",".","*","l","o","g","g","e","r">>

S_stmt ==
    <<"x",";">>

S_stmt_sp ==
    <<"x",";"," ">>

S_import_x ==
    <<"i","m","p","o","r","t"," ","x">>

S_from_call ==
    <<" ","a","s"," ","a","n","y",")",".","f","r","o","m","(","x",
     ")">>

\* str.strip(), str.rstrip()
RECURSIVE RStrip(_)
RStrip(s) ==
    IF s # <<>> /\ s[Len(s)] \in Space THEN RStrip(SubSeq(s, 1, Len(s) - 1)) ELSE s

RECURSIVE LStrip(_)
LStrip(s) == IF s # <<>> /\ Head(s) \in Space THEN LStrip(Tail(s)) ELSE s

Strip(s) == LStrip(RStrip(s))

\* str.endswith, str.startswith
EndsWith(s, t) == Len(t) <= Len(s) /\ SubSeq(s, Len(s) - Len(t) + 1, Len(s)) = t
StartsWith(s, t) == StartsAt(s, 1, t)

\* s[:-1]
DropLast(s) == IF s = <<>> THEN <<>> ELSE SubSeq(s, 1, Len(s) - 1)

\* re.search(r' as any\)\.(from|rpc)\(', line)
IsParenTrigger(line) == Contains(line, S_paren_from) \/ Contains(line, S_paren_rpc)

ParenWindow == 20
RpcWindow == 10

\* the lookahead of the script, in lines
Window(script) ==
    CASE script = Parentheses -> ParenWindow
      [] script = SupabasePatterns -> RpcWindow
      [] OTHER -> 0

\* the line the lookahead is looking for
IsEnd(script, line) ==
    CASE script = Parentheses -> EndsWith(Strip(line), <<";">>)
      [] script = SupabasePatterns -> Strip(line) = S_rpc_end
      [] OTHER -> FALSE

\* what the lookahead puts in its place
EndFix(script, line) ==
    CASE script = Parentheses -> DropLast(RStrip(line)) \o S_close_semi
      [] script = SupabasePatterns -> S_rpc_fixed
      [] OTHER -> line

\* a lookahead without its window
InWindowUnbounded(j, i, n, w) == j < n

\* while j < len(lines) and j < i + w   (i, j count from 0)
InWindow(j, i, n, w) == j < n /\ j < i + w

\* the while loop from j on: the lines afterwards, the indices whose line
\* was read, and whether a line was replaced
RECURSIVE Lookahead(_, _, _, _)
Lookahead(script, ls, i, j) ==
    IF InWindow(j, i, Len(ls), Window(script))
    THEN IF IsEnd(script, ls[j + 1])
         THEN [lines |-> [ls EXCEPT ![j + 1] = EndFix(script, ls[j + 1])],
               read |-> {j}, found |-> TRUE]
         ELSE LET r == Lookahead(script, ls, i, j + 1)
              IN [r EXCEPT !.read = @ \cup {j}]
    ELSE [lines |-> ls, read |-> {}, found |-> FALSE]

\* fix-all-supabase-patterns, first rule: 'await supabase' in line and
\* i + 1 < len(lines) and 'as any).from' in lines[i + 1]
AwaitRule(ls, i) ==
    /\ Contains(ls[i + 1], S_await_supabase)
    /\ i + 1 < Len(ls)
    /\ Contains(ls[i + 2], S_as_any_from_bare)

\* the condition under which iteration i of the loop over the lines does
\* anything
Triggers(script, ls, i) ==
    CASE script = Parentheses -> IsParenTrigger(ls[i + 1])
      [] script = SupabasePatterns ->
           AwaitRule(ls, i) \/ Contains(ls[i + 1], S_await_rpc)
      [] script = AllLte -> Contains(ls[i + 1], S_lte_pat)
      [] OTHER -> FALSE

\* the first iteration from i on that does anything, or len(lines)
NextTrigger(script, ls, i) ==
    LET T == {k \in i..(Len(ls) - 1) : Triggers(script, ls, k)}
    IN IF T = {} THEN IF i > Len(ls) THEN i ELSE Len(ls)
       ELSE CHOOSE k \in T : \A m \in T : k <= m

NoVisit == [i |-> -1, mid |-> <<>>, lines |-> <<>>, read |-> {},
            looked |-> FALSE, modified |-> FALSE]

\* the body of iteration i: mid is the list when the lookahead starts
Visit(script, ls, i) ==
    CASE script = Parentheses ->
           LET r == Lookahead(script, ls, i, i + 1)
           IN [i |-> i, mid |-> ls, lines |-> r.lines, read |-> r.read,
               looked |-> TRUE, modified |-> r.found]
      [] script = SupabasePatterns ->
           LET line == ls[i + 1]
               m1 == IF AwaitRule(ls, i)
                     THEN [ls EXCEPT
                             ![i + 1] = StrReplace(ls[i + 1], S_await_supabase,
                                                   S_await_cast),
                             ![i + 2] = StrReplace(ls[i + 2], S_as_any_from_bare,
                                                   S_dot_from)]
                     ELSE ls
           IN IF Contains(line, S_await_rpc)
              THEN LET r == Lookahead(script, m1, i, i + 1)
                   IN [i |-> i, mid |-> m1, lines |-> r.lines, read |-> r.read,
                       looked |-> TRUE, modified |-> AwaitRule(ls, i) \/ r.found]
              ELSE [i |-> i, mid |-> m1, lines |-> m1, read |-> {},
                    looked |-> FALSE, modified |-> AwaitRule(ls, i)]
      [] script = AllLte ->
           LET line == ls[i + 1]
               prev == IF i > 0 THEN ls[i] ELSE <<>>
               hit == Contains(prev, S_gte)
               new == IF hit
                      THEN [ls EXCEPT ![i + 1] = StrReplace(line, S_lte_pat,
                                                            S_lte_fixed)]
                      ELSE ls
           IN [i |-> i, mid |-> ls, lines |-> new, read |-> {},
               looked |-> FALSE, modified |-> hit]
      [] OTHER -> [NoVisit EXCEPT !.mid = ls, !.lines = ls]

\* fix-logger-imports: 'import.*logger' in content or 'from.*logger' in content
AlreadyImported(text) ==
    Contains(text, S_import_check) \/ Contains(text, S_from_check)

\* import_idx: the last i with lines[i].startswith('import'), or -1
ImportIdx(ls) ==
    LET S == {i \in 0..(Len(ls) - 1) : StartsWith(ls[i + 1], S_import)}
    IN IF S = {} THEN -1 ELSE SetMax(S)

\* lines.insert(import_idx + 1, 'import { logger } from "@/lib/logger";')
InsertLogger(ls) ==
    LET k == ImportIdx(ls) + 1
    IN SubSeq(ls, 1, k) \o <<S_logger_line>> \o SubSeq(ls, k + 1, Len(ls))

(***************************************************************************)
(* Files for the fixed-target scripts: up to MaxShort lines of the kinds   *)
(* the script looks at, with a run of other lines put in at one place      *)
(***************************************************************************)
LineKinds(script) ==
    CASE script = LoggerImports -> {S_import_x, S_y, S_import_check}
      [] script = Parentheses -> {S_paren_from, S_stmt, S_stmt_sp, S_y}
      [] script = SupabasePatterns ->
           {S_await_supabase, S_from_call, S_await_rpc, S_rpc_end, S_y}
      [] script = AllLte -> {S_gte, S_lte_pat, S_y}

\* lengths of the run put in: none, and the two around the window's end
Gaps(script) ==
    IF Window(script) = 0 THEN {0}
    ELSE {0, Window(script) - 2, Window(script) - 1}

FixedFiles(script) ==
    UNION {{SubSeq(f, 1, q) \o [k \in 1..g |-> S_y] \o SubSeq(f, q + 1, Len(f)) :
               q \in 0..Len(f), g \in Gaps(script)} :
           f \in UNION {[1..n -> LineKinds(script)] : n \in 1..MaxShort}}

(***************************************************************************)
(* State                                                                   *)
(***************************************************************************)
VARIABLES
    script,     \* the script being run
    pc,         \* "start", "parse", "files", "apply", "done", "aborted"; "line";
                \* "fstart", "fscan", "fdone"
    producer,   \* outcome of subprocess.run: "none", "ok", "notfound", "timeout"
    output,     \* lines of producer output not yet parsed
    fixes,      \* the fixes dict: sequence of [file, issues]
    lastAdded,  \* number of records the last parsed output line appended
    queue,      \* files the fix loop has still to visit
    cur,        \* file_path of the current iteration
    content,    \* path.read_text() of the current file
    lines,      \* the in-memory list of lines
    modified,   \* the modified flag
    todo,       \* fixes of the current file not yet handled
    disk,       \* file -> [exists, bytes]
    disk0,      \* the disk when the script started
    writes,     \* number of path.write_text calls
    printed,    \* what the script has printed
    stats,      \* per file: edits per line, stale / in-range / changing fixes
    ext,        \* another writer has written the current file after it was read
    trial,      \* one line and one fix, applied repeatedly (SpecLine)
    scan        \* a fixed-target script: its loop index, its last iteration,
                \* the runs made and the file after the first run (SpecFixed)

vars == <<script, pc, producer, output, fixes, lastAdded, queue, cur, content,
          lines, modified, todo, disk, disk0, writes, printed, stats, ext, trial,
          scan>>

NoStats == [applied |-> <<>>, stale |-> 0, inrange |-> 0, changed |-> 0]
NoTrial == [fix |-> Fix(0, <<>>, <<>>), orig |-> <<>>, prev |-> <<>>,
            cur |-> <<>>, n |-> 0]
NoScan == [i |-> 0, runs |-> 0, after1 |-> <<>>, last |-> NoVisit]

Init ==
    /\ script \in Scripts
    /\ pc = "start"
    /\ producer = "none"
    /\ output = <<>>
    /\ fixes = <<>>
    /\ lastAdded = 0
    /\ queue = <<>>
    /\ cur = ""
    /\ content = <<>>
    /\ lines = <<>>
    /\ modified = FALSE
    /\ todo = <<>>
    /\ \E b \in SampleFiles(script) :
         disk = [f \in Files |-> IF f = FileA THEN OnDisk(b) ELSE Missing]
    /\ disk0 = disk
    /\ writes = 0
    /\ printed = <<>>
    /\ stats = NoStats
    /\ ext = FALSE
    /\ trial = NoTrial
    /\ scan = NoScan

\* result = subprocess.run([...], capture_output=True, text=True, timeout=60)
RunProducer ==
    /\ pc = "start"
    /\ \E outcome \in {"ok", "notfound", "timeout"}, out \in Outputs(script) :
         /\ producer' = outcome
         /\ pc' = ProducerNext(script, outcome)
         /\ output' = IF pc' = "parse" THEN out ELSE <<>>
         /\ printed' = IF outcome # "ok" /\ script = AllRefs
                       THEN Append(printed, "Error running tsc") ELSE printed
    /\ UNCHANGED <<scan, script, fixes, lastAdded, queue, cur, content, lines,
                   modified, todo, disk, disk0, writes, stats, ext, trial>>

\* one iteration of: for line in output.split('\n')
ParseOne ==
    /\ pc = "parse"
    /\ output # <<>>
    /\ LET rs == ParseLine(script, Head(output)) IN
         /\ fixes' = AddAll(fixes, rs)
         /\ lastAdded' = Len(rs)
    /\ output' = Tail(output)
    /\ UNCHANGED <<scan, script, pc, producer, queue, cur, content, lines, modified,
                   todo, disk, disk0, writes, printed, stats, ext, trial>>

\* end of the parsing loop: print "Found ...", enter the fix loop
ParseDone ==
    /\ pc = "parse"
    /\ output = <<>>
    /\ pc' = "files"
    /\ queue' = FileOrder(script, fixes)
    /\ printed' = Append(printed, "Found")
    /\ UNCHANGED <<scan, script, producer, output, fixes, lastAdded, cur, content,
                   lines, modified, todo, disk, disk0, writes, stats, ext, trial>>

\* if not path.exists(): continue
SkipMissing ==
    /\ pc = "files"
    /\ queue # <<>>
    /\ ~disk[Head(queue).file].exists
    /\ queue' = Tail(queue)
    /\ UNCHANGED <<scan, script, pc, producer, output, fixes, lastAdded, cur, content,
                   lines, modified, todo, disk, disk0, writes, printed, stats,
                   ext, trial>>

\* lines = path.read_text().split('\n'); modified = False
ReadFile ==
    /\ pc = "files"
    /\ queue # <<>>
    /\ disk[Head(queue).file].exists
    /\ cur' = Head(queue).file
    /\ content' = ReadText(disk[Head(queue).file].bytes)
    /\ lines' = SplitLines(content')
    /\ modified' = FALSE
    /\ todo' = Head(queue).issues
    /\ queue' = Tail(queue)
    /\ stats' = [NoStats EXCEPT !.applied = [k \in 1..Len(lines') |-> 0]]
    /\ ext' = FALSE
    /\ pc' = "apply"
    /\ UNCHANGED <<scan, script, producer, output, fixes, lastAdded, disk, disk0,
                   writes, printed, trial>>

\* one iteration of the loop over the file's fixes:
\* idx = line_num - 1; if 0 <= idx < len(lines): ...
ApplyOne ==
    /\ pc = "apply"
    /\ todo # <<>>
    /\ LET fix == Head(todo)
           idx == fix.line - 1
       IN IF 0 <= idx /\ idx < Len(lines)
          THEN LET new == ApplyFix(script, lines[fix.line], fix) IN
               /\ lines' = SetLine(lines, fix.line, new)
               /\ modified' = ModifiedAfter(script, lines[fix.line], fix, modified)
               /\ stats' = [stats EXCEPT
                    !.inrange = @ + 1,
                    !.changed = IF new # lines[fix.line] THEN @ + 1 ELSE @,
                    !.applied[fix.line] =
                         IF new # lines[fix.line] THEN @ + 1 ELSE @]
          ELSE /\ stats' = [stats EXCEPT !.stale = @ + 1]
               /\ UNCHANGED <<lines, modified>>
    /\ todo' = Tail(todo)
    /\ UNCHANGED <<scan, script, pc, producer, output, fixes, lastAdded, queue, cur,
                   content, disk, disk0, writes, printed, ext, trial>>

\* after the loop: [if modified:] path.write_text('\n'.join(lines)); print
Commit ==
    /\ pc = "apply"
    /\ todo = <<>>
    /\ LET newContent == JoinLines(lines) IN
         IF ShouldWrite(script, modified, content, newContent)
         THEN /\ disk' = [disk EXCEPT ![cur] = OnDisk(WriteText(newContent))]
              /\ writes' = writes + 1
              /\ printed' = Append(printed, "Fixed file")
         ELSE UNCHANGED <<disk, writes, printed>>
    /\ pc' = "files"
    /\ UNCHANGED <<scan, script, producer, output, fixes, lastAdded, queue, cur,
                   content, lines, modified, todo, disk0, stats, ext, trial>>

\* end of the fix loop: print the summary
Finish ==
    /\ pc = "files"
    /\ queue = <<>>
    /\ pc' = "done"
    /\ printed' = Append(printed, "Summary")
    /\ UNCHANGED <<scan, script, producer, output, fixes, lastAdded, queue, cur,
                   content, lines, modified, todo, disk, disk0, writes, stats,
                   ext, trial>>

Next ==
    \/ RunProducer
    \/ ParseOne
    \/ ParseDone
    \/ SkipMissing
    \/ ReadFile
    \/ ApplyOne
    \/ Commit
    \/ Finish

Spec == Init /\ [][Next]_vars

(***************************************************************************)
(* Another writer changes the current file between read_text and           *)
(* write_text                                                              *)
(***************************************************************************)
ExternalWrite ==
    /\ pc = "apply"
    /\ ~ext
    /\ disk' = [disk EXCEPT ![cur] = OnDisk(ExternalContent)]
    /\ ext' = TRUE
    /\ UNCHANGED <<scan, script, pc, producer, output, fixes, lastAdded, queue, cur,
                   content, lines, modified, todo, disk0, writes, printed,
                   stats, trial>>

NextConcurrent == Next \/ ExternalWrite

SpecConcurrent == Init /\ [][NextConcurrent]_vars

(***************************************************************************)
(* One fix applied to one line, and then applied again                     *)
(***************************************************************************)
InitLine ==
    /\ script \in Scripts
    /\ pc = "line"
    /\ producer = "none"
    /\ output = <<>>
    /\ fixes = <<>>
    /\ lastAdded = 0
    /\ queue = <<>>
    /\ cur = ""
    /\ content = <<>>
    /\ lines = <<>>
    /\ modified = FALSE
    /\ todo = <<>>
    /\ disk = [f \in Files |-> Missing]
    /\ disk0 = disk
    /\ writes = 0
    /\ printed = <<>>
    /\ stats = NoStats
    /\ ext = FALSE
    /\ \E f \in TrialFixes(script), l \in TrialLines(script) :
         trial = [fix |-> f, orig |-> l, prev |-> l, cur |-> l, n |-> 0]
    /\ scan = NoScan

\* lines[idx] = <the script's rewrite of lines[idx]>, once and once more
Reapply ==
    /\ pc = "line"
    /\ trial.n < 2
    /\ trial' = [trial EXCEPT !.prev = trial.cur,
                              !.cur = ApplyFix(script, trial.cur, trial.fix),
                              !.n = @ + 1]
    /\ UNCHANGED <<scan, script, pc, producer, output, fixes, lastAdded, queue, cur,
                   content, lines, modified, todo, disk, disk0, writes,
                   printed, stats, ext>>

SpecLine == InitLine /\ [][Reapply]_vars

(***************************************************************************)
(* A fixed-target script run on its file, and then run again.  FileA       *)
(* stands for the file the script names.                                   *)
(***************************************************************************)
InitFixed ==
    /\ script \in FixedScripts
    /\ pc = "fstart"
    /\ producer = "none"
    /\ output = <<>>
    /\ fixes = <<>>
    /\ lastAdded = 0
    /\ queue = <<>>
    /\ cur = FileA
    /\ content = <<>>
    /\ lines = <<>>
    /\ modified = FALSE
    /\ todo = <<>>
    /\ \E d \in {OnDisk(WriteText(JoinLines(f))) : f \in FixedFiles(script)}
                  \cup {Missing} :
         disk = [f \in Files |-> IF f = FileA THEN d ELSE Missing]
    /\ disk0 = disk
    /\ writes = 0
    /\ printed = <<>>
    /\ stats = NoStats
    /\ ext = FALSE
    /\ trial = NoTrial
    /\ scan = NoScan

\* if not path.exists(): continue.  fix-all-lte reads without asking, and
\* read_text raises FileNotFoundError, which nothing catches
MissingFixed ==
    /\ pc = "fstart"
    /\ ~disk[cur].exists
    /\ pc' = IF script = AllLte THEN "aborted" ELSE "fdone"
    /\ scan' = IF script = AllLte THEN scan
               ELSE [scan EXCEPT !.runs = @ + 1,
                                 !.after1 = IF scan.runs = 0 THEN <<>> ELSE @]
    /\ UNCHANGED <<script, producer, output, fixes, lastAdded, queue, cur,
                   content, lines, modified, todo, disk, disk0, writes,
                   printed, stats, ext, trial>>

\* lines = path.read_text().split('\n'); modified = False
ReadFixed ==
    /\ pc = "fstart"
    /\ disk[cur].exists
    /\ content' = ReadText(disk[cur].bytes)
    /\ lines' = SplitLines(content')
    /\ modified' = FALSE
    /\ scan' = [scan EXCEPT !.i = 0, !.last = NoVisit]
    /\ pc' = "fscan"
    /\ UNCHANGED <<script, producer, output, fixes, lastAdded, queue, cur,
                   todo, disk, disk0, writes, printed, stats, ext, trial>>

\* for i, line in enumerate(lines): the iterations up to and including the
\* next one whose condition holds
VisitNext ==
    /\ pc = "fscan"
    /\ LET t == NextTrigger(script, lines, scan.i) IN
         /\ t < Len(lines)
         /\ LET v == Visit(script, lines, t) IN
              /\ lines' = v.lines
              /\ modified' = (modified \/ v.modified)
              /\ scan' = [scan EXCEPT !.i = t + 1, !.last = v]
    /\ UNCHANGED <<script, pc, producer, output, fixes, lastAdded, queue, cur,
                   content, todo, disk, disk0, writes, printed, stats, ext,
                   trial>>

\* fix-logger-imports: the import is put in unless the check finds it or
\* no line starts with 'import'
LoggerInserts(text, ls) == ~AlreadyImported(text) /\ ImportIdx(ls) >= 0

\* the rest of the loop and what follows it: if modified:
\* path.write_text('\n'.join(lines)); in fix-logger-imports
\* if import_idx >= 0: lines.insert(...); path.write_text('\n'.join(lines))
WriteFixed ==
    /\ pc = "fscan"
    /\ NextTrigger(script, lines, scan.i) >= Len(lines)
    /\ LET ins == script = LoggerImports /\ LoggerInserts(content, lines)
           new == IF ins THEN InsertLogger(lines) ELSE lines
           wr == IF script = LoggerImports THEN ins ELSE modified
           after == IF wr THEN OnDisk(WriteText(JoinLines(new))) ELSE disk[cur]
       IN /\ lines' = new
          /\ disk' = [disk EXCEPT ![cur] = after]
          /\ writes' = IF wr THEN writes + 1 ELSE writes
          /\ printed' = IF wr THEN Append(printed, "Fixed file") ELSE printed
          /\ scan' = [scan EXCEPT !.i = Len(lines), !.runs = @ + 1,
                                  !.after1 = IF scan.runs = 0 THEN after.bytes
                                             ELSE @]
    /\ pc' = "fdone"
    /\ UNCHANGED <<script, producer, output, fixes, lastAdded, queue, cur,
                   content, modified, todo, disk0, stats, ext, trial>>

\* the script is started once more
Rerun ==
    /\ pc = "fdone"
    /\ scan.runs < 2
    /\ pc' = "fstart"
    /\ UNCHANGED <<script, producer, output, fixes, lastAdded, queue, cur,
                   content, lines, modified, todo, disk, disk0, writes,
                   printed, stats, ext, trial, scan>>

NextFixed ==
    \/ MissingFixed
    \/ ReadFixed
    \/ VisitNext
    \/ WriteFixed
    \/ Rerun

SpecFixed == InitFixed /\ [][NextFixed]_vars

(***************************************************************************)
(* Properties                                                              *)
(***************************************************************************)

\* C1: in the property-access scripts, applying the '(x as any).P' rewrite
\* for a diagnostic on P a second time leaves the line unchanged.
C1_SecondApplicationNoChange ==
    (pc = "line" /\ script \in PropertyScripts /\ trial.n = 2)
        => trial.cur = trial.prev

\* C2: two diagnostics that target the same line of the same file are never
\* both applied: no line receives more than one edit in a pass.
C2_NeverBothApplied ==
    \A k \in DOMAIN stats.applied : stats.applied[k] <= 1

\* C3: when another writer changed the file after the script read it, the
\* other writer's content is still on disk once the script is done with
\* the file.
C3_ExternalWritePreserved ==
    (pc \in {"files", "done"} /\ ext) => disk[cur].bytes = ExternalContent

\* C4: when every diagnostic collected for a file is out of range, no write
\* to that file is performed.
C4_StaleMeansNoWrite ==
    (pc \in {"files", "done"} /\ stats.stale > 0 /\ stats.inrange = 0)
        => writes = 0

\* C5: when no diagnostic changed a line, the file on disk after the pass
\* is identical to the file before the pass.
C5_NoChangeKeepsDisk ==
    (pc = "done" /\ stats.changed = 0) => disk = disk0

\* C6: when the producer cannot be started or times out, the script ends
\* without writing any file.
C6_ProducerFailureNoWrite ==
    (producer \in {"notfound", "timeout"}) => (writes = 0 /\ disk = disk0)

C6_Witness == producer = "timeout" /\ pc = "aborted" /\ disk[FileA].exists

\* C7: in fix-ts-errors-comprehensive, fix-batch-7 and fix-massive-batch one
\* line of producer output adds at most one record to the fixes.
C7_OneRecordPerLine ==
    (script \in {Comprehensive, Batch7, MassiveBatch}) => lastAdded <= 1

\* positions of s where old stands as a whole word not followed by ':'
Eligible(s, old) ==
    {q \in 1..Len(s) :
        /\ StartsAt(s, q, old)
        /\ ~(q > 1 /\ s[q - 1] \in WordChar)
        /\ ~(q + Len(old) <= Len(s) /\ s[q + Len(old)] \in WordChar \cup {":"})}

\* s with the occurrences of old that start at the positions in P replaced
RECURSIVE ReplaceAt(_, _, _, _, _)
ReplaceAt(s, i, P, old, new) ==
    IF i > Len(s) THEN <<>>
    ELSE IF i \in P THEN new \o ReplaceAt(s, i + Len(old), P, old, new)
         ELSE <<s[i]>> \o ReplaceAt(s, i + 1, P, old, new)

\* C8: in fix-all-refs and fix-ts-errors-comprehensive the rewritten line
\* differs from the line only at whole-word occurrences of the old name
\* that are not immediately followed by ':'.
C8_OnlyEligibleRewritten ==
    (pc = "line" /\ script \in {AllRefs, Comprehensive} /\ trial.n >= 1)
        => \E P \in SUBSET Eligible(trial.prev, trial.fix.old) :
              trial.cur = ReplaceAt(trial.prev, 1, P, trial.fix.old, trial.fix.new)

C8_Witness ==
    /\ pc = "line" /\ script = AllRefs /\ trial.n = 1
    /\ trial.cur # trial.prev
    /\ Contains(trial.prev, trial.fix.old \o <<":">>)
    /\ Contains(trial.cur, trial.fix.old \o <<":">>)

\* C9: in fix-all-refs every whole-word occurrence of old that is not
\* immediately followed by ':' is replaced by new.
C9_AllEligibleRewritten ==
    (pc = "line" /\ script = AllRefs /\ trial.n = 1)
        => trial.cur = ReplaceAt(trial.orig, 1, Eligible(trial.orig, trial.fix.old),
                                 trial.fix.old, trial.fix.new)

\* C10: in fix-batch-7 and fix-massive-batch applying a change record again
\* to the result gives the same line as applying it once.
C10_ReplaceIdempotent ==
    (pc = "line" /\ script \in ReplaceScripts /\ trial.n = 2)
        => trial.cur = trial.prev

\* the fixes of the current file the apply loop has already handled
Handled ==
    LET e == CHOOSE e \in {fixes[k] : k \in 1..Len(fixes)} : e.file = cur
    IN SubSeq(e.issues, 1, Len(e.issues) - Len(todo))

\* the in-order application to one line of the fixes reported for line k
RECURSIVE ApplyReported(_, _, _, _)
ApplyReported(sc, line, fs, k) ==
    IF fs = <<>> THEN line
    ELSE ApplyReported(sc,
                       IF Head(fs).line = k THEN ApplyFix(sc, line, Head(fs))
                       ELSE line,
                       Tail(fs), k)

\* C13: edits never shift line numbers: during the apply loop the list has
\* as many lines as were read and every line is the line that was read with
\* exactly the fixes reported for its number applied, in the order reported;
\* a file written back has as many lines as before.
C13_LineNumbersNeverShift ==
    /\ (pc = "apply") =>
         LET orig == SplitLines(content) IN
           /\ Len(lines) = Len(orig)
           /\ \A k \in 1..Len(orig) :
                lines[k] = ApplyReported(script, orig[k], Handled, k)
    /\ (pc \in {"files", "done"} /\ writes > 0) =>
         Len(SplitLines(ReadText(disk[FileA].bytes)))
           = Len(SplitLines(ReadText(disk0[FileA].bytes)))

\* two fixes reported in ascending line order have both changed their line
C13_Witness ==
    /\ pc = "apply" /\ todo = <<>>
    /\ Len(Handled) = 2
    /\ 1 <= Handled[1].line /\ Handled[1].line < Handled[2].line
    /\ Handled[2].line <= Len(lines)
    /\ stats.applied[Handled[1].line] = 1
    /\ stats.applied[Handled[2].line] = 1

\* C11: a fixed-target script (fix-logger-imports, fix-parentheses,
\* fix-all-supabase-patterns, fix-all-lte) run a second time leaves the file
\* as the first run left it.
C11_SecondRunChangesNothing ==
    (pc = "fdone" /\ scan.runs = 2) => disk[cur].bytes = scan.after1

\* the lines the last lookahead could end at: those of its window, inside
\* the file, that are an end line when the lookahead starts
Candidates ==
    {j \in 0..(Len(scan.last.mid) - 1) :
        /\ scan.last.i < j
        /\ j < scan.last.i + Window(script)
        /\ IsEnd(script, scan.last.mid[j + 1])}

\* the lines the last lookahead changed
Changed ==
    {j \in 0..(Len(scan.last.mid) - 1) : scan.last.lines[j + 1] # scan.last.mid[j + 1]}

\* C12: the lookahead from a trigger line i changes the first end line j
\* with i < j < i + window inside the file, as the script rewrites it, and
\* no other line; it changes nothing when there is no such line; the file
\* keeps its length; and every line it reads is inside the window and
\* inside the file.
C12_LookaheadFailsClosed ==
    scan.last.looked =>
        /\ Len(scan.last.lines) = Len(scan.last.mid)
        /\ Changed = IF Candidates = {} THEN {}
                     ELSE {CHOOSE j \in Candidates : \A k \in Candidates : j <= k}
        /\ \A j \in Changed :
             scan.last.lines[j + 1] = EndFix(script, scan.last.mid[j + 1])
        /\ \A j \in scan.last.read :
             /\ scan.last.i < j
             /\ j < scan.last.i + Window(script)
             /\ j < Len(scan.last.mid)

\* a lookahead whose only end line is in the file at or after the end of
\* the window, and which changed nothing
C12_Witness ==
    /\ scan.last.looked
    /\ Candidates = {}
    /\ \E j \in 0..(Len(scan.last.mid) - 1) :
         /\ j >= scan.last.i + Window(script)
         /\ IsEnd(script, scan.last.mid[j + 1])
    /\ scan.last.lines = scan.last.mid
    /\ scan.last.read # {}

====
